---- MODULE Spec2Model ----
(***************************************************************************)
(* FPL-Gen-Bot: the FPL API client (services/fpl_api.py), the performance *)
(* predictor (services/ml_predictor.py) and the transfer engine            *)
(* (services/transfer_engine.py) as state machines.                        *)
(*                                                                         *)
(* asyncio runs one task at a time and switches tasks only at an await     *)
(* that suspends.  A task's step is one block of code; `running` names the *)
(* task that is between two suspension points (0: every task is suspended  *)
(* or idle), and only that task may step, so the blocks between two awaits *)
(* are atomic as they are on the event loop.                               *)
(***************************************************************************)
EXTENDS Integers, Sequences, FiniteSets, TLC

VARIABLES
    settings,               \* config/settings.py: which values are set (truthy)
    session,                \* FPLAPI.session: 0 (None) or a connection id
    authenticated_session,  \* FPLAPI.authenticated_session: 0 (None) or an id
    conns,                  \* every ClientSession created, by id
    scope,                  \* the async-with scope: "new", "entered", "exited"
    network,                \* what the server and the transport may answer
    running,                \* the task holding the event loop, 0 if none
    tasks,                  \* per task: call stack, locals, observations
    predictor,              \* MLPredictor: is_trained, and the call in progress
    engine,                 \* TransferEngine: the call in progress
    db                      \* the record store the engine writes to

vars == <<settings, network, session, authenticated_session, conns, scope, running, tasks,
          predictor, engine, db>>

\* the client and its tasks
apiVars == <<settings, network, session, authenticated_session, conns, scope, running, tasks>>

\* the components that work without the network
localVars == <<predictor, engine, db>>

clientVars == <<session, authenticated_session, conns, scope>>

---------------------------------------------------------------------------
(* Bounds of the model *)

\* ClientSession objects one client creates in a behaviour
MaxConns == 4

\* the tasks sharing one client
Tasks == {1, 2}

\* the single task of the sequential specification
SeqTasks == {1}

---------------------------------------------------------------------------
(* Program constants *)

max_retries == 3

initial_retry_delay == 1

HTTP_OK == 200

HTTP_UNAUTHORIZED == 401

HTTP_RATE_LIMITED == 429

---------------------------------------------------------------------------
(* Values *)

None == [tag |-> "None"]

Bool(b) == [tag |-> "bool", b |-> b]

Json_FirstRequest(n, d) == [tag |-> "json", req |-> 1, doc |-> d]

\* the parsed JSON body of the n-th request of the current logical request
Json(n, d) == [tag |-> "json", req |-> n, doc |-> d]

\* an integer, and a JSON object taken out of a document
IntVal(n) == [tag |-> "int", n |-> n]

Obj(o) == [tag |-> "object", o |-> o]

\* Python truthiness of a value a call returned
Truthy(v) ==
    CASE v.tag = "None" -> FALSE
      [] v.tag = "bool" -> v.b
      [] v.tag = "json" -> v.doc.truthy
      [] v.tag = "int" -> v.n # 0
      [] OTHER -> TRUE

\* What the server or the transport does with one request: a response with a
\* status, or an exception raised inside the `async with` block (a timeout,
\* or any other fault, the body read included).
\* a representative of "any other status"
OtherStatuses == {500}

Statuses == {HTTP_OK, HTTP_UNAUTHORIZED, HTTP_RATE_LIMITED} \cup OtherStatuses

Outcomes ==
    {[status |-> s, exc |-> "none"] : s \in Statuses}
        \cup {[status |-> 0, exc |-> e] : e \in {"TimeoutError", "Exception"}}

NoOutcome == [status |-> 0, exc |-> "none"]

\* A JSON document: its shape, its Python truthiness (an empty object or
\* array is falsy), and the members the client reads.
Doc(shape, events, elements, fixtures) ==
    [shape |-> shape, truthy |-> TRUE,
     events |-> events, elements |-> elements, fixtures |-> fixtures]

\* an opaque JSON document (a non-empty object)
PlainDoc == Doc("object", <<>>, <<>>, <<>>)

EmptyObject == [PlainDoc EXCEPT !.truthy = FALSE]

EmptyArray == [PlainDoc EXCEPT !.shape = "array", !.truthy = FALSE]

Event(id, cur, nxt) == [id |-> id, is_current |-> cur, is_next |-> nxt]

\* chance_of_playing_*: a number, null, or no such key
Chance(k, n) == [kind |-> k, n |-> n]

Player(id, status, news, cn, ct) ==
    [id |-> id, status |-> status, news |-> news,
     chance_of_playing_next_round |-> cn, chance_of_playing_this_round |-> ct]

Fixture(ev, h, a, hd, ad) ==
    [event |-> ev, team_h |-> h, team_a |-> a,
     team_h_difficulty |-> hd, team_a_difficulty |-> ad]

\* the event lists, player lists and fixture lists the server answers with
EventLists ==
    {<<>>,
     <<Event(6, TRUE, FALSE), Event(7, FALSE, TRUE)>>,
     <<Event(7, FALSE, TRUE), Event(6, TRUE, FALSE)>>,
     <<Event(5, FALSE, FALSE), Event(7, FALSE, TRUE)>>}

ElementLists ==
    {<<>>,
     <<Player(1, "i", "Knee injury", Chance("int", 25), Chance("null", 0))>>,
     <<Player(2, "a", "", Chance("int", 100), Chance("int", 100)),
       Player(1, "absent", "absent", Chance("absent", 0), Chance("absent", 0))>>}

FixtureLists ==
    {<<Fixture(1, 1, 2, 2, 4), Fixture(1, 3, 4, 3, 3)>>,
     <<Fixture(2, 1, 2, 5, 1), Fixture(1, 2, 1, 4, 2)>>}

BootstrapDocs ==
    {Doc("object", ev, <<>>, <<>>) : ev \in EventLists}
        \cup {Doc("object", <<>>, el, <<>>) : el \in ElementLists}
        \cup {EmptyObject, Doc("array", <<>>, <<>>, <<>>)}

FixtureDocs ==
    {Doc("array", <<>>, <<>>, fx) : fx \in FixtureLists}
        \cup {EmptyArray, Doc("object", <<>>, <<>>, <<>>)}

\* the bodies a 200 response of an endpoint may carry
Docs(url) ==
    CASE url = "bootstrap-static" -> BootstrapDocs
      [] url = "fixtures" -> FixtureDocs
      [] OTHER -> {PlainDoc}

---------------------------------------------------------------------------
(* Connections (aiohttp.ClientSession) *)

BaseHeaders == {"User-Agent"}

SessionAuthHeaders == {"User-Agent", "Cookie", "X-CSRFToken", "Referer"}

\* TCPConnector(limit=10, limit_per_host=5): every ClientSession has a
\* connector of its own
POOL_LIMIT == 10

POOL_LIMIT_PER_HOST == 5

NewConn(h) ==
    [closed |-> FALSE, headers |-> h,
     limit |-> POOL_LIMIT, limit_per_host |-> POOL_LIMIT_PER_HOST]

\* ClientSession.close(): the session is closed from the call on
CloseConn(cs, c) == [cs EXCEPT ![c].closed = TRUE]

IsOpen(c) == c # 0 /\ ~conns[c].closed

---------------------------------------------------------------------------
(* Tasks *)

InitTask ==
    [stack |-> <<>>, method |-> "none", url |-> "none",
     attempt |-> 0, retry_delay |-> 0,
     ident |-> 0, gameweek |-> 0,
     sent |-> 0, limited |-> 0, auths |-> 0, req |-> 0, last |-> NoOutcome, wait |-> 0,
     queued |-> FALSE,
     ret |-> None, exc |-> "none", escaped |-> FALSE]

Top(r) == r.stack[Len(r.stack)]

Idle(r) == r.stack = <<>>

Fn(r) == IF Idle(r) THEN "none" ELSE Top(r).fn

Pc(r) == IF Idle(r) THEN "idle" ELSE Top(r).pc

\* the operation the task was asked to run
Op(r) == IF Idle(r) THEN "none" ELSE r.stack[1].fn

\* the places where a task gives up the event loop
AwaitPcs ==
    {"idle", "done", "await_get", "await_post", "await_retry", "sleep",
     "await_close", "await_transfer", "await_close_session", "await_close_auth"}

Goto(r, label) == [r EXCEPT !.stack[Len(r.stack)].pc = label]

CallFn(r, resume, fn) ==
    [r EXCEPT !.stack = Append([@ EXCEPT ![Len(@)].pc = resume],
                               [fn |-> fn, pc |-> "entry"])]

\* `return v`: the caller resumes where it called; the outermost frame is done
ReturnFn(r, v) ==
    IF Len(r.stack) = 1
    THEN [r EXCEPT !.stack = <<[fn |-> r.stack[1].fn, pc |-> "done"]>>, !.ret = v]
    ELSE [r EXCEPT !.stack = SubSeq(@, 1, Len(@) - 1), !.ret = v]

---------------------------------------------------------------------------
(* Exceptions *)

PublicOps ==
    {"get_bootstrap_data", "get_player_data", "get_fixtures", "get_team_data",
     "get_team_picks", "get_player_info", "get_fixture_difficulty",
     "get_player_injury_status", "execute_transfers"}

InTry_TransferUnguarded(fn, pc) ==
    CASE fn = "_make_request_with_retry" -> pc # "entry"
      [] fn = "_authenticate" -> TRUE
      [] fn = "get_team_data" -> pc # "entry"
      [] fn = "get_team_picks" -> pc # "entry"
      [] fn = "execute_transfers" -> FALSE
      [] fn \in PublicOps -> TRUE
      [] OTHER -> FALSE

\* Whether the code of fn at pc (its own statement, or the call it is waiting
\* in) lies inside a try block with an `except Exception` clause.
InTry(fn, pc) ==
    CASE fn = "_make_request_with_retry" -> pc # "entry"
      [] fn = "_authenticate" -> TRUE
      [] fn = "get_team_data" -> pc # "entry"
      [] fn = "get_team_picks" -> pc # "entry"
      [] fn = "execute_transfers" -> pc # "entry"
      [] fn \in PublicOps -> TRUE
      [] OTHER -> FALSE

\* the except clause an exception e lands in
ExceptLabel(fn, e) ==
    IF fn = "_make_request_with_retry"
    THEN IF e = "TimeoutError" THEN "except_timeout" ELSE "except_exception"
    ELSE "except"

\* `raise e` at the top frame: unwind to the innermost enclosing try; with none,
\* the exception leaves the operation
Raise(r, e) ==
    LET tries == {i \in 1..Len(r.stack) : InTry(r.stack[i].fn, r.stack[i].pc)}
    IN  IF tries = {}
        THEN [r EXCEPT !.stack = <<[fn |-> r.stack[1].fn, pc |-> "done"]>>,
                       !.ret = None, !.exc = e, !.escaped = TRUE]
        ELSE LET h == CHOOSE i \in tries : \A j \in tries : j <= i
                 f == r.stack[h].fn
             IN  [r EXCEPT !.stack = Append(SubSeq(r.stack, 1, h - 1),
                                            [fn |-> f, pc |-> ExceptLabel(f, e)]),
                           !.exc = e]

---------------------------------------------------------------------------
(* Steps *)

Commit(t, r) ==
    /\ tasks' = [tasks EXCEPT ![t] = r]
    /\ running' = IF Pc(r) \in AwaitPcs THEN 0 ELSE t

At(t, fn, pc) ==
    /\ running \in {0, t}
    /\ Fn(tasks[t]) = fn
    /\ Pc(tasks[t]) = pc

AtAny(t, fn, pcs) ==
    /\ running \in {0, t}
    /\ Fn(tasks[t]) = fn
    /\ Pc(tasks[t]) \in pcs

\* The requests that hold a connection of the connector of ClientSession c.
\* Every URL is under FPL_BASE_URL, so all of them go to one host.
InFlight(c) == Cardinality({u \in DOMAIN tasks : tasks[u].req = c /\ ~tasks[u].queued})

HasFreeSlot_Unbounded(c) == TRUE

\* the connector of c gives out a connection only below both of its limits
HasFreeSlot(c) ==
    /\ InFlight(c) < conns[c].limit
    /\ InFlight(c) < conns[c].limit_per_host

\* the places where a task waits for the response to a request
ResponsePcs == {"await_get", "await_post", "await_retry", "await_transfer"}

\* a request that waited for a connection of the connector gets one
Acquire(t) ==
    /\ running = 0
    /\ Pc(tasks[t]) \in ResponsePcs
    /\ tasks[t].queued
    /\ HasFreeSlot(tasks[t].req)
    /\ tasks' = [tasks EXCEPT ![t].queued = FALSE]
    /\ UNCHANGED <<localVars, settings, network, clientVars, running>>

\* `async with c.get/post(...)`: a closed ClientSession raises RuntimeError at
\* once; an open one sends the request and the task waits for the response
Send(r, c, awaitLabel) ==
    IF conns[c].closed
    THEN Raise(r, "Exception")
    ELSE [Goto(r, awaitLabel) EXCEPT !.req = c, !.sent = @ + 1,
                                     !.queued = ~HasFreeSlot(c)]

Sleep(r, d) == [Goto(r, "sleep") EXCEPT !.wait = d]

Methods == {"GET", "get", "POST", "PUT"}

Upper_OtherVerbIsGet(m) == IF m = "POST" THEN m ELSE "GET"

\* method.upper()
Upper(m) == IF m = "get" THEN "GET" ELSE m

Callable == PublicOps \cup {"_make_request_with_retry", "_authenticate", "__aenter__", "__aexit__"}

MethodsOf(fn) == IF fn = "_make_request_with_retry" THEN Methods ELSE {"none"}

\* the arguments the callers pass: a player or team id, a gameweek (0: None)
IdsOf(fn) ==
    CASE fn \in {"get_player_info", "get_player_injury_status"} -> {1, 3}
      [] fn = "get_fixture_difficulty" -> {1, 2, 5}
      [] OTHER -> {0}

GameweeksOf(fn) ==
    CASE fn = "get_team_picks" -> {0, 6}
      [] fn = "get_fixture_difficulty" -> {1}
      [] OTHER -> {0}

\* a task starts an operation on the client
Call(t, fn, m, id, gw) ==
    /\ running = 0
    /\ Idle(tasks[t])
    /\ fn = "__aenter__" => scope = "new"
    /\ fn = "__aexit__" => scope = "entered"
    /\ Commit(t, [InitTask EXCEPT !.stack = <<[fn |-> fn, pc |-> "entry"]>>,
                                  !.method = m,
                                  !.url = IF m = "none" THEN "none" ELSE "any",
                                  !.ident = id,
                                  !.gameweek = gw])
    /\ scope' = IF fn = "__aexit__" THEN "exiting" ELSE scope
    /\ UNCHANGED <<localVars, settings, network, session, authenticated_session, conns>>

\* the caller takes the result; the task is free again
Return(t) ==
    /\ At(t, Op(tasks[t]), "done")
    /\ Commit(t, InitTask)
    /\ UNCHANGED <<localVars, settings, network, clientVars>>

(* __aenter__ / __aexit__ *)

Enter(t) ==
    /\ At(t, "__aenter__", "entry")
    /\ Len(conns) < MaxConns
    /\ conns' = Append(conns, NewConn(BaseHeaders))
    /\ session' = Len(conns) + 1
    /\ scope' = "entered"
    /\ Commit(t, ReturnFn(tasks[t], None))
    /\ UNCHANGED <<localVars, settings, network, authenticated_session>>

ExitSession(t) ==
    /\ At(t, "__aexit__", "entry")
    /\ IF session # 0
       THEN /\ conns' = CloseConn(conns, session)
            /\ Commit(t, Goto(tasks[t], "await_close_session"))
       ELSE /\ conns' = conns
            /\ Commit(t, Goto(tasks[t], "close_auth"))
    /\ UNCHANGED <<localVars, settings, network, session, authenticated_session, scope>>

ExitAuth(t) ==
    /\ AtAny(t, "__aexit__", {"await_close_session", "close_auth"})
    /\ IF authenticated_session # 0
       THEN /\ conns' = CloseConn(conns, authenticated_session)
            /\ Commit(t, Goto(tasks[t], "await_close_auth"))
            /\ scope' = scope
       ELSE /\ conns' = conns
            /\ Commit(t, ReturnFn(tasks[t], None))
            /\ scope' = "exited"
    /\ UNCHANGED <<localVars, settings, network, session, authenticated_session>>

ExitDone(t) ==
    /\ At(t, "__aexit__", "await_close_auth")
    /\ scope' = "exited"
    /\ Commit(t, ReturnFn(tasks[t], None))
    /\ UNCHANGED <<localVars, settings, network, session, authenticated_session, conns>>

(* _make_request_with_retry *)

\* lines 35-41: the locals, and the check that a session exists
MrwrEntry(t) ==
    /\ At(t, "_make_request_with_retry", "entry")
    /\ LET r == [tasks[t] EXCEPT !.attempt = 0, !.retry_delay = initial_retry_delay,
                                 !.sent = 0, !.limited = 0,
                                 !.last = NoOutcome]
       IN  Commit(t, IF session = 0 THEN ReturnFn(r, None) ELSE Goto(r, "loop"))
    /\ UNCHANGED <<localVars, settings, network, clientVars>>

\* the connection a POST goes out on (line 63)
session_to_use ==
    IF authenticated_session # 0 THEN authenticated_session ELSE session

LoopExhausted_OffByOne(r) == r.attempt > max_retries

\* line 43: range(max_retries) has no further value of `attempt`
LoopExhausted(r) == r.attempt >= max_retries

\* lines 43-46, 61-64, 88-90, 107: the head of the for loop and the request
MrwrLoop(t) ==
    /\ At(t, "_make_request_with_retry", "loop")
    /\ LET r == tasks[t]
       IN  Commit(t,
             IF LoopExhausted(r) THEN ReturnFn(r, None)
             ELSE IF Upper(r.method) = "GET" THEN Send(r, session, "await_get")
             ELSE IF Upper(r.method) = "POST" THEN Send(r, session_to_use, "await_post")
             ELSE ReturnFn(r, None))
    /\ UNCHANGED <<localVars, settings, network, clientVars>>

\* lines 54-60 and 81-87: a status that is neither 200 nor handled specially
OtherStatus(r) ==
    IF r.attempt < max_retries - 1 THEN Sleep(r, r.retry_delay) ELSE ReturnFn(r, None)

RateLimited_LastReturns(r) ==
    IF r.attempt < max_retries - 1
    THEN Sleep([r EXCEPT !.limited = @ + 1], r.retry_delay * 2)
    ELSE ReturnFn([r EXCEPT !.limited = @ + 1], None)

RateLimited_SingleWait(r) == Sleep([r EXCEPT !.limited = @ + 1], r.retry_delay)

\* lines 49-53 and 76-80
RateLimited(r) == Sleep([r EXCEPT !.limited = @ + 1], r.retry_delay * 2)

\* a request still waiting for a connection gets no response: it can only time
\* out (the timeout covers the wait) or fail
Answers(r, o) == r.queued => o.exc # "none"

\* lines 46-60: the response to a GET
GetResponse(t) ==
    /\ At(t, "_make_request_with_retry", "await_get")
    /\ \E o \in network, d \in Docs(tasks[t].url) :
         LET r == [tasks[t] EXCEPT !.req = 0, !.last = o, !.queued = FALSE]
         IN  Answers(tasks[t], o) /\ Commit(t,
               IF o.exc # "none" THEN Raise(r, o.exc)
               ELSE IF o.status = HTTP_OK THEN ReturnFn(r, Json(r.sent, d))
               ELSE IF o.status = HTTP_RATE_LIMITED THEN RateLimited(r)
               ELSE OtherStatus(r))
    /\ UNCHANGED <<localVars, settings, network, clientVars>>

\* lines 64-87: the response to a POST
PostResponse(t) ==
    /\ At(t, "_make_request_with_retry", "await_post")
    /\ \E o \in network, d \in Docs(tasks[t].url) :
         LET r == [tasks[t] EXCEPT !.req = 0, !.last = o, !.queued = FALSE]
         IN  Answers(tasks[t], o) /\ Commit(t,
               IF o.exc # "none" THEN Raise(r, o.exc)
               ELSE IF o.status = HTTP_OK THEN ReturnFn(r, Json(r.sent, d))
               ELSE IF o.status = HTTP_UNAUTHORIZED THEN CallFn(r, "after_auth", "_authenticate")
               ELSE IF o.status = HTTP_RATE_LIMITED THEN RateLimited(r)
               ELSE OtherStatus(r))
    /\ UNCHANGED <<localVars, settings, network, clientVars>>

\* lines 69-72, 75: back from _authenticate
AfterAuth(t) ==
    /\ At(t, "_make_request_with_retry", "after_auth")
    /\ LET r == tasks[t]
       IN  Commit(t,
             IF Truthy(r.ret) /\ authenticated_session # 0
             THEN Send(r, authenticated_session, "await_retry")
             ELSE ReturnFn(r, None))
    /\ UNCHANGED <<localVars, settings, network, clientVars>>

RetryFailed_Backoff(r) ==
    IF r.attempt < max_retries - 1 THEN Sleep(r, r.retry_delay) ELSE ReturnFn(r, None)

\* lines 73-75: a repeated request that is not answered 200 ends the call
RetryFailed(r) == ReturnFn(r, None)

\* lines 72-75: the response to the request repeated after re-authentication
RetryResponse(t) ==
    /\ At(t, "_make_request_with_retry", "await_retry")
    /\ \E o \in network, d \in Docs(tasks[t].url) :
         LET r == [tasks[t] EXCEPT !.req = 0, !.last = o, !.queued = FALSE]
         IN  Answers(tasks[t], o) /\ Commit(t,
               IF o.exc # "none" THEN Raise(r, o.exc)
               ELSE IF o.status = HTTP_OK THEN ReturnFn(r, Json(r.sent, d))
               ELSE RetryFailed(r))
    /\ UNCHANGED <<localVars, settings, network, clientVars>>

\* lines 92-98: except asyncio.TimeoutError
ExceptTimeout(t) ==
    /\ At(t, "_make_request_with_retry", "except_timeout")
    /\ LET r == [tasks[t] EXCEPT !.exc = "none"]
       IN  Commit(t, IF r.attempt < max_retries - 1
                     THEN Sleep(r, r.retry_delay) ELSE ReturnFn(r, None))
    /\ UNCHANGED <<localVars, settings, network, clientVars>>

\* lines 99-105: except Exception
ExceptException(t) ==
    /\ At(t, "_make_request_with_retry", "except_exception")
    /\ LET r == [tasks[t] EXCEPT !.exc = "none"]
       IN  Commit(t, IF r.attempt < max_retries - 1
                     THEN Sleep(r, r.retry_delay) ELSE ReturnFn(r, None))
    /\ UNCHANGED <<localVars, settings, network, clientVars>>

NextAttempt_RateLimitFree(r) ==
    [Goto(r, "loop") EXCEPT !.retry_delay = @ * 2,
                            !.attempt = IF r.last.status = HTTP_RATE_LIMITED THEN @ ELSE @ + 1,
                            !.wait = 0]

\* `retry_delay *= 2; continue`: the for loop takes the next value of
\* `attempt` from range(max_retries), after a 429 as after any other failure
NextAttempt(r) ==
    [Goto(r, "loop") EXCEPT !.retry_delay = @ * 2, !.attempt = @ + 1, !.wait = 0]

\* asyncio.sleep is over
Wake(t) ==
    /\ At(t, "_make_request_with_retry", "sleep")
    /\ Commit(t, NextAttempt(tasks[t]))
    /\ UNCHANGED <<localVars, settings, network, clientVars>>

(* _authenticate *)

AuthEntry_NoClose(t) ==
    /\ At(t, "_authenticate", "entry")
    /\ Commit(t, Goto([tasks[t] EXCEPT !.auths = @ + 1], "open"))
    /\ UNCHANGED <<localVars, settings, network, clientVars>>

\* lines 111-114: close the authenticated session there is
AuthEntry(t) ==
    /\ At(t, "_authenticate", "entry")
    /\ LET r == [tasks[t] EXCEPT !.auths = @ + 1]
       IN  IF authenticated_session # 0
           THEN /\ conns' = CloseConn(conns, authenticated_session)
                /\ Commit(t, Goto(r, "await_close"))
           ELSE /\ conns' = conns
                /\ Commit(t, Goto(r, "open"))
    /\ UNCHANGED <<localVars, settings, network, session, authenticated_session, scope>>

AuthVariant_PartialCredential(s) ==
    IF s.SESSION_ID \/ s.CSRF_TOKEN THEN "session"
    ELSE IF s.FPL_USERNAME \/ s.FPL_PASSWORD THEN "credential"
    ELSE "none"

AuthVariant_CredentialFirst(s) ==
    IF s.FPL_USERNAME /\ s.FPL_PASSWORD THEN "credential"
    ELSE IF s.SESSION_ID /\ s.CSRF_TOKEN THEN "session"
    ELSE "none"

\* lines 116-147: which credentials are used
AuthVariant(s) ==
    IF s.SESSION_ID /\ s.CSRF_TOKEN THEN "session"
    ELSE IF s.FPL_USERNAME /\ s.FPL_PASSWORD THEN "credential"
    ELSE "none"

\* lines 120-129 and 138-142: the headers of the new ClientSession
AuthHeaders(variant) ==
    IF variant = "session" THEN SessionAuthHeaders ELSE BaseHeaders

\* lines 116-147: open the new authenticated session, or report failure
AuthOpen(t) ==
    /\ AtAny(t, "_authenticate", {"await_close", "open"})
    /\ LET v == AuthVariant(settings)
       IN  IF v = "none"
           THEN /\ Commit(t, ReturnFn(tasks[t], Bool(FALSE)))
                /\ UNCHANGED <<conns, authenticated_session>>
           ELSE /\ Len(conns) < MaxConns
                /\ conns' = Append(conns, NewConn(AuthHeaders(v)))
                /\ authenticated_session' = Len(conns) + 1
                /\ Commit(t, ReturnFn(tasks[t], Bool(TRUE)))
    /\ UNCHANGED <<localVars, settings, network, session, scope>>

(* execute_transfers *)

ExecuteTransfersEntry_AuthFirst(t) ==
    /\ At(t, "execute_transfers", "entry")
    /\ LET r == tasks[t]
       IN  Commit(t,
             IF authenticated_session = 0
             THEN CallFn(r, "after_auth", "_authenticate")
             ELSE IF ~settings.TEAM_ID THEN ReturnFn(r, Bool(FALSE))
             ELSE Goto(r, "post"))
    /\ UNCHANGED <<localVars, settings, network, clientVars>>

\* lines 287-296: the TEAM_ID check, and authentication when there is no
\* authenticated session
ExecuteTransfersEntry(t) ==
    /\ At(t, "execute_transfers", "entry")
    /\ LET r == tasks[t]
       IN  Commit(t,
             IF ~settings.TEAM_ID THEN ReturnFn(r, Bool(FALSE))
             ELSE IF authenticated_session = 0
                  THEN CallFn(r, "after_auth", "_authenticate")
                  ELSE Goto(r, "post"))
    /\ UNCHANGED <<localVars, settings, network, clientVars>>

\* lines 294-296
ExecuteTransfersAfterAuth(t) ==
    /\ At(t, "execute_transfers", "after_auth")
    /\ LET r == tasks[t]
       IN  Commit(t, IF ~Truthy(r.ret) THEN ReturnFn(r, Bool(FALSE)) ELSE Goto(r, "post"))
    /\ UNCHANGED <<localVars, settings, network, clientVars>>

\* lines 298-317, 326-328: the transfer POST on the authenticated session
ExecuteTransfersPost(t) ==
    /\ At(t, "execute_transfers", "post")
    /\ LET r == [tasks[t] EXCEPT !.method = "POST", !.url = "transfers"]
       IN  Commit(t,
             IF authenticated_session # 0
             THEN Send(r, authenticated_session, "await_transfer")
             ELSE ReturnFn(r, Bool(FALSE)))
    /\ UNCHANGED <<localVars, settings, network, clientVars>>

TransferFailed_RepostWhenLimited(r) ==
    IF r.last.status = HTTP_RATE_LIMITED THEN Goto(r, "post") ELSE ReturnFn(r, Bool(FALSE))

TransferFailed_Accepted(r) == ReturnFn(r, Bool(TRUE))

TransferFailed_Retry(r) == Goto(r, "post")

\* lines 322-325: any other status than 200 is a failure
TransferFailed(r) == ReturnFn(r, Bool(FALSE))

\* lines 317-325: the response to the transfer POST
ExecuteTransfersResponse(t) ==
    /\ At(t, "execute_transfers", "await_transfer")
    /\ \E o \in network :
         LET r == [tasks[t] EXCEPT !.req = 0, !.last = o, !.queued = FALSE]
         IN  Answers(tasks[t], o) /\ Commit(t,
               IF o.exc # "none" THEN Raise(r, o.exc)
               ELSE IF o.status = HTTP_OK THEN ReturnFn(r, Bool(TRUE))
               ELSE TransferFailed(r))
    /\ UNCHANGED <<localVars, settings, network, clientVars>>

\* lines 330-332
ExecuteTransfersExcept(t) ==
    /\ At(t, "execute_transfers", "except")
    /\ Commit(t, ReturnFn([tasks[t] EXCEPT !.exc = "none"], Bool(FALSE)))
    /\ UNCHANGED <<localVars, settings, network, clientVars>>

(* The fetch operations *)

\* a GET of url through _make_request_with_retry; the caller resumes at resume
Fetch(r, url, resume) ==
    CallFn([r EXCEPT !.method = "GET", !.url = url], resume, "_make_request_with_retry")

GetBootstrapData(t) ==
    /\ AtAny(t, "get_bootstrap_data", {"entry", "after_request"})
    /\ LET r == tasks[t]
       IN  Commit(t, IF Pc(r) = "entry"
                     THEN Fetch(r, "bootstrap-static", "after_request")
                     ELSE ReturnFn(r, r.ret))
    /\ UNCHANGED <<localVars, settings, network, clientVars>>

GetPlayerData(t) ==
    /\ AtAny(t, "get_player_data", {"entry", "after_request"})
    /\ LET r == tasks[t]
       IN  Commit(t, IF Pc(r) = "entry"
                     THEN Fetch(r, "element-summary", "after_request")
                     ELSE ReturnFn(r, r.ret))
    /\ UNCHANGED <<localVars, settings, network, clientVars>>

GetFixtures(t) ==
    /\ AtAny(t, "get_fixtures", {"entry", "after_request"})
    /\ LET r == tasks[t]
       IN  Commit(t, IF Pc(r) = "entry"
                     THEN Fetch(r, "fixtures", "after_request")
                     ELSE ReturnFn(r, r.ret))
    /\ UNCHANGED <<localVars, settings, network, clientVars>>

GetTeamData(t) ==
    /\ AtAny(t, "get_team_data", {"entry", "after_request"})
    /\ LET r == tasks[t]
       IN  Commit(t, IF Pc(r) = "entry"
                     THEN IF ~settings.TEAM_ID THEN ReturnFn(r, None)
                          ELSE Fetch(r, "entry", "after_request")
                     ELSE ReturnFn(r, r.ret))
    /\ UNCHANGED <<localVars, settings, network, clientVars>>

\* the least element of a non-empty set of indices
First(S) == CHOOSE i \in S : \A j \in S : i <= j

\* lines 203-210: the id of the first event, in list order, that is flagged
\* is_current or is_next; 0 (None) when there is none
CurrentGameweek(events) ==
    LET flagged == {i \in 1..Len(events) : events[i].is_current \/ events[i].is_next}
    IN  IF flagged = {} THEN 0 ELSE events[First(flagged)].id

\* lines 194-201, 212-217 (gameweek given)
TeamPicksEntry(t) ==
    /\ At(t, "get_team_picks", "entry")
    /\ LET r == tasks[t]
       IN  Commit(t,
             IF ~settings.TEAM_ID THEN ReturnFn(r, None)
             ELSE IF r.gameweek = 0
                  THEN CallFn(r, "after_bootstrap", "get_bootstrap_data")
                  ELSE Fetch(r, "picks", "after_request"))
    /\ UNCHANGED <<localVars, settings, network, clientVars>>

\* lines 202-217: the gameweek from the bootstrap events, then the picks request
TeamPicksResolve(t) ==
    /\ At(t, "get_team_picks", "after_bootstrap")
    /\ LET r == tasks[t]
           bootstrap_data == r.ret
           gw == IF Truthy(bootstrap_data)
                 THEN CurrentGameweek(bootstrap_data.doc.events) ELSE 0
       IN  Commit(t,
             IF Truthy(bootstrap_data) /\ bootstrap_data.doc.shape # "object"
             THEN Raise(r, "Exception")
             ELSE IF gw = 0 THEN ReturnFn(r, None)
             ELSE Fetch([r EXCEPT !.gameweek = gw], "picks", "after_request"))
    /\ UNCHANGED <<localVars, settings, network, clientVars>>

\* line 217, and lines 218-220
TeamPicksDone(t) ==
    /\ AtAny(t, "get_team_picks", {"after_request", "except"})
    /\ LET r == tasks[t]
       IN  Commit(t, IF Pc(r) = "except"
                     THEN ReturnFn([r EXCEPT !.exc = "none"], None)
                     ELSE ReturnFn(r, r.ret))
    /\ UNCHANGED <<localVars, settings, network, clientVars>>

\* lines 229-233: the first player with the id, None without one
FindPlayer(players, player_id) ==
    LET found == {i \in 1..Len(players) : players[i].id = player_id}
    IN  IF found = {} THEN None ELSE Obj(players[First(found)])

\* lines 224-236
GetPlayerInfo(t) ==
    /\ AtAny(t, "get_player_info", {"entry", "after_bootstrap", "except"})
    /\ LET r == tasks[t]
           bootstrap_data == r.ret
       IN  Commit(t,
             CASE Pc(r) = "entry" -> CallFn(r, "after_bootstrap", "get_bootstrap_data")
               [] Pc(r) = "except" -> ReturnFn([r EXCEPT !.exc = "none"], None)
               [] OTHER ->
                    IF ~Truthy(bootstrap_data) THEN ReturnFn(r, None)
                    ELSE IF bootstrap_data.doc.shape # "object" THEN Raise(r, "Exception")
                    ELSE ReturnFn(r, FindPlayer(bootstrap_data.doc.elements, r.ident)))
    /\ UNCHANGED <<localVars, settings, network, clientVars>>

DEFAULT_DIFFICULTY == 3

FixtureDifficulty_HomeOnly(fixtures, team_id, gameweek) ==
    LET found == {i \in 1..Len(fixtures) :
                    /\ fixtures[i].event = gameweek
                    /\ team_id \in {fixtures[i].team_h, fixtures[i].team_a}}
    IN  IF found = {} THEN DEFAULT_DIFFICULTY
        ELSE fixtures[First(found)].team_h_difficulty

\* lines 245-252: the difficulty of the first fixture of the gameweek the team
\* plays in, on the team's side
FixtureDifficulty(fixtures, team_id, gameweek) ==
    LET found == {i \in 1..Len(fixtures) :
                    /\ fixtures[i].event = gameweek
                    /\ team_id \in {fixtures[i].team_h, fixtures[i].team_a}}
    IN  IF found = {} THEN DEFAULT_DIFFICULTY
        ELSE LET fixture == fixtures[First(found)]
             IN  IF fixture.team_h = team_id THEN fixture.team_h_difficulty
                 ELSE fixture.team_a_difficulty

\* lines 240-255
GetFixtureDifficulty(t) ==
    /\ AtAny(t, "get_fixture_difficulty", {"entry", "after_fixtures", "except"})
    /\ LET r == tasks[t]
           fixtures == r.ret
       IN  Commit(t,
             CASE Pc(r) = "entry" -> CallFn(r, "after_fixtures", "get_fixtures")
               [] Pc(r) = "except" ->
                    ReturnFn([r EXCEPT !.exc = "none"], IntVal(DEFAULT_DIFFICULTY))
               [] OTHER ->
                    IF ~Truthy(fixtures) THEN ReturnFn(r, IntVal(DEFAULT_DIFFICULTY))
                    ELSE IF fixtures.doc.shape # "array" THEN Raise(r, "Exception")
                    ELSE ReturnFn(r, IntVal(FixtureDifficulty(fixtures.doc.fixtures,
                                                                r.ident, r.gameweek))))
    /\ UNCHANGED <<localVars, settings, network, clientVars>>

FULL_CHANCE == 100

Injury(status, news, chance_next, chance_this) ==
    [tag |-> "injury", status |-> status, news |-> news,
     chance_of_playing_next_round |-> chance_next,
     chance_of_playing_this_round |-> chance_this]

\* lines 262 and 283
DefaultInjury == Injury("a", "", FULL_CHANCE, FULL_CHANCE)

ChanceOrDefault_NullIsZero(c) ==
    IF c.kind = "int" THEN c.n ELSE IF c.kind = "null" THEN 0 ELSE FULL_CHANCE

\* lines 268-273: .get() gives None for a missing key, and None becomes 100
ChanceOrDefault(c) == IF c.kind = "int" THEN c.n ELSE FULL_CHANCE

\* lines 264-280
InjuryStatus(player_info) ==
    Injury(IF player_info.status = "absent" THEN "a" ELSE player_info.status,
           IF player_info.news = "absent" THEN "" ELSE player_info.news,
           ChanceOrDefault(player_info.chance_of_playing_next_round),
           ChanceOrDefault(player_info.chance_of_playing_this_round))

\* lines 259-283
GetPlayerInjuryStatus(t) ==
    /\ AtAny(t, "get_player_injury_status", {"entry", "after_info"})
    /\ LET r == tasks[t]
           player_info == r.ret
       IN  Commit(t,
             IF Pc(r) = "entry" THEN CallFn(r, "after_info", "get_player_info")
             ELSE IF ~Truthy(player_info) THEN ReturnFn(r, DefaultInjury)
             ELSE ReturnFn(r, InjuryStatus(player_info.o)))
    /\ UNCHANGED <<localVars, settings, network, clientVars>>

---------------------------------------------------------------------------
(* The performance predictor (services/ml_predictor.py) *)

\* Python values.  A number is held in hundredths (5.0 is 500); Absent is a
\* key the dict does not have, None (above) a key whose value is null.
Absent == [tag |-> "absent"]

NaN == [tag |-> "nan"]

Float(n) == [tag |-> "float", n |-> n]

Raised(e) == [tag |-> "raise", exc |-> e]

\* dict.get(key, default)
Get(v, default) == IF v = Absent THEN default ELSE v

\* `v or default`: None and 0 are falsy, nan is not
OrDefault(v, default) == IF v = None \/ v = Float(0) THEN default ELSE v

\* v * 1.2 (line 112): None * 1.2 is a TypeError
TimesFallbackFactor(v) ==
    CASE v.tag = "float" -> Float((v.n * 12) \div 10)
      [] v.tag = "nan" -> NaN
      [] OTHER -> Raised("TypeError")

\* max(0, v): v when v > 0 and otherwise 0, also for nan; `None > 0` is a
\* TypeError
Max0(v) ==
    CASE v.tag = "float" -> IF v.n > 0 THEN v ELSE Float(0)
      [] v.tag = "nan" -> Float(0)
      [] v.tag = "raise" -> v
      [] OTHER -> Raised("TypeError")

\* line 73
MIN_RECORDS == 10

\* line 86
MIN_VALID_ROWS == 5

\* whether a call into the database or into scikit-learn raises
Faults == {"none", "Exception"}

\* the player_stats dicts: each field absent, null, nan or a number
PlayerStats ==
    [form : {Absent, None, NaN, Float(-250), Float(0), Float(500)},
     minutes : {Absent, None, NaN, Float(9000)}]

\* what self.model.predict(features)[0] does: raise, or yield a value
ModelOutcomes == {Raised("Exception"), NaN, Float(-300), Float(0), Float(850)}

\* line 23; the rest is the call in progress
InitPredictor ==
    [is_trained |-> FALSE, call |-> "none", pc |-> "idle",
     was_trained |-> FALSE, records |-> 0, ret |-> None,
     args |-> [player_stats |-> [form |-> Absent, minutes |-> Absent],
               opponent_difficulty |-> None, outcome |-> NaN]]

PredictorReturnFn(p, v) == [p EXCEPT !.pc = "done", !.ret = v]

\* a caller starts train_model(db)
TrainModel ==
    /\ predictor.pc = "idle"
    /\ predictor' = [InitPredictor EXCEPT !.is_trained = predictor.is_trained,
                                          !.call = "train_model", !.pc = "query",
                                          !.was_trained = predictor.is_trained]
    /\ UNCHANGED <<apiVars, engine, db>>

\* lines 71-75: the historical records (n of them), and the check that there
\* are enough
TrainQuery ==
    /\ predictor.call = "train_model" /\ predictor.pc = "query"
    /\ \E f \in Faults, n \in {0, 9, 10, 12} :
         predictor' =
           IF f # "none" THEN [predictor EXCEPT !.pc = "except"]
           ELSE IF n < MIN_RECORDS THEN PredictorReturnFn(predictor, Bool(FALSE))
           ELSE [predictor EXCEPT !.pc = "clean", !.records = n]
    /\ UNCHANGED <<apiVars, engine, db>>

\* lines 78-88: features and target, the rows with NaN or infinite values are
\* removed, the check that enough rows are left
TrainClean ==
    /\ predictor.call = "train_model" /\ predictor.pc = "clean"
    /\ \E f \in Faults, rows \in {0, 4, 5, predictor.records} :
         predictor' =
           IF f # "none" THEN [predictor EXCEPT !.pc = "except"]
           ELSE IF rows < MIN_VALID_ROWS THEN PredictorReturnFn(predictor, Bool(FALSE))
           ELSE [predictor EXCEPT !.pc = "fit"]
    /\ UNCHANGED <<apiVars, engine, db>>

\* lines 91-95: split, fit; the model is marked as trained as soon as fit has
\* returned
TrainFit ==
    /\ predictor.call = "train_model" /\ predictor.pc = "fit"
    /\ \E f \in Faults :
         predictor' = IF f # "none" THEN [predictor EXCEPT !.pc = "except"]
                      ELSE [predictor EXCEPT !.pc = "evaluate", !.is_trained = TRUE]
    /\ UNCHANGED <<apiVars, engine, db>>

\* lines 98-102: predict on the test rows, mean squared error, return True
TrainEvaluate ==
    /\ predictor.call = "train_model" /\ predictor.pc = "evaluate"
    /\ \E f \in Faults :
         predictor' = IF f # "none" THEN [predictor EXCEPT !.pc = "except"]
                      ELSE PredictorReturnFn(predictor, Bool(TRUE))
    /\ UNCHANGED <<apiVars, engine, db>>

\* lines 103-105
TrainExcept ==
    /\ predictor.call = "train_model" /\ predictor.pc = "except"
    /\ predictor' = PredictorReturnFn(predictor, Bool(FALSE))
    /\ UNCHANGED <<apiVars, engine, db>>

\* lines 137 and 144: max(0, player_stats.get('form', 0))
FormFallback(player_stats) == Max0(Get(player_stats.form, Float(0)))

\* lines 109-144.  The feature vector of lines 116-132 reads every field alike
\* (form and minutes stand for them) and is invalid (line 135) with a nan in
\* it.  An exception raised in the try block (lines 114-141) is
\* handled at line 142, and the handler evaluates the form fallback again;
\* what line 112 or the handler raises leaves the function.
PredictPerformance(is_trained, player_stats, opponent_difficulty, outcome) ==
    IF ~is_trained
    THEN Max0(TimesFallbackFactor(Get(player_stats.form, Float(0))))
    ELSE LET features == <<OrDefault(opponent_difficulty, Float(300)),
                           OrDefault(Get(player_stats.minutes, Float(0)), Float(0)),
                           OrDefault(Get(player_stats.form, Float(0)), Float(0))>>
             invalid == \E i \in DOMAIN features : features[i] = NaN
             tried == IF invalid THEN FormFallback(player_stats)
                      ELSE Max0(outcome)
         IN  IF tried.tag = "raise" THEN FormFallback(player_stats) ELSE tried

\* a caller runs predict_performance(player_stats, opponent_difficulty)
PredictCall ==
    /\ predictor.pc = "idle"
    /\ \E ps \in PlayerStats, od \in {None, Float(300)}, o \in ModelOutcomes :
         predictor' =
           [InitPredictor EXCEPT
              !.is_trained = predictor.is_trained,
              !.was_trained = predictor.is_trained,
              !.call = "predict_performance",
              !.pc = "done",
              !.args = [player_stats |-> ps, opponent_difficulty |-> od, outcome |-> o],
              !.ret = PredictPerformance(predictor.is_trained, ps, od, o)]
    /\ UNCHANGED <<apiVars, engine, db>>

\* the caller takes the result
PredictorReturn ==
    /\ predictor.pc = "done"
    /\ predictor' = [InitPredictor EXCEPT !.is_trained = predictor.is_trained]
    /\ UNCHANGED <<apiVars, engine, db>>

---------------------------------------------------------------------------
(* The transfer engine (services/transfer_engine.py), after its documented *)
(* contract and tests/test_transfer_engine.py                              *)

Str(s) == [tag |-> "str", s |-> s]

UNAVAILABLE_STATUSES == {"i", "s", "u"}

MIN_CHANCE == 75

\* what calculate_expected_points returns, in hundredths
ExpectedPoints == {Float(0), Float(600), Float(1000)}

\* the player dicts: status absent or one of available, doubtful, injured,
\* suspended, unavailable; the chance absent, null or a percentage; now_cost
\* in tenths
Players ==
    [status : {Absent} \cup {Str(c) : c \in {"a", "d", "i", "s", "u"}},
     chance_of_playing_next_round :
         {Absent, None} \cup {IntVal(n) : n \in {0, 50, 74, 75, 100}},
     now_cost : {0, 40, 50, 125}]

IsPlayerAvailable_StatusOnly(player) ==
    Get(player.status, Str("a")).s \notin UNAVAILABLE_STATUSES

IsPlayerAvailable(player) ==
    LET status == Get(player.status, Str("a"))
        chance == Get(player.chance_of_playing_next_round, None)
    IN  /\ status.s \notin UNAVAILABLE_STATUSES
        /\ chance = None \/ chance.n >= MIN_CHANCE

\* expected_points / (price / 10), price in tenths and the points and the
\* quotient in hundredths; dividing by 0.0 is a ZeroDivisionError
PerMillion(expected_points, price) ==
    IF price = 0 THEN Raised("ZeroDivisionError")
    ELSE Float((expected_points.n * 10) \div price)

CalculatePlayerValue_Unguarded(player, expected_points) ==
    PerMillion(expected_points, player.now_cost)

CalculatePlayerValue(player, expected_points) ==
    IF player.now_cost = 0 THEN Float(0)
    ELSE PerMillion(expected_points, player.now_cost)

\* TransferRecord rows the store holds in one behaviour
MaxRecords == 2

InitEngine ==
    [call |-> "none", pc |-> "idle",
     player |-> [status |-> Absent, chance_of_playing_next_round |-> Absent, now_cost |-> 0],
     expected_points |-> Float(0),
     ret |-> None, raised |-> FALSE,
     add_fault |-> "none", commit_fault |-> "none",
     adds |-> 0, commits |-> 0, rollbacks |-> 0, records_before |-> 0]

EngineReturnFn(e, v) == [e EXCEPT !.pc = "done", !.ret = v, !.raised = (v.tag = "raise")]

\* is_player_available(player)
IsPlayerAvailableCall ==
    /\ engine.pc = "idle"
    /\ \E player \in Players :
         engine' = EngineReturnFn([InitEngine EXCEPT !.call = "is_player_available",
                                                     !.player = player],
                                  Bool(IsPlayerAvailable(player)))
    /\ UNCHANGED <<apiVars, predictor, db>>

\* calculate_player_value(player, difficulty), with what
\* calculate_expected_points gives for the player
CalculatePlayerValueCall ==
    /\ engine.pc = "idle"
    /\ \E player \in Players, ep \in ExpectedPoints :
         engine' = EngineReturnFn([InitEngine EXCEPT !.call = "calculate_player_value",
                                                     !.player = player,
                                                     !.expected_points = ep],
                                  CalculatePlayerValue(player, ep))
    /\ UNCHANGED <<apiVars, predictor, db>>

\* a caller starts record_transfer(transfer_data)
RecordTransfer ==
    /\ engine.pc = "idle"
    /\ db.records < MaxRecords
    /\ engine' = [InitEngine EXCEPT !.call = "record_transfer", !.pc = "add",
                                    !.records_before = db.records]
    /\ UNCHANGED <<apiVars, predictor, db>>

AddFailed_CommitsAnyway(e) == [e EXCEPT !.pc = "commit"]

\* a fault of db.add is handled by the except clause
AddFailed(e) == [e EXCEPT !.pc = "except"]

\* db.add(record)
RecordAdd ==
    /\ engine.call = "record_transfer" /\ engine.pc = "add"
    /\ \E f \in Faults :
         LET e == [engine EXCEPT !.adds = @ + 1, !.add_fault = f]
         IN  IF f # "none"
             THEN engine' = AddFailed(e) /\ db' = db
             ELSE engine' = [e EXCEPT !.pc = "commit"] /\ db' = [db EXCEPT !.pending = @ + 1]
    /\ UNCHANGED <<apiVars, predictor>>

\* db.commit()
RecordCommit ==
    /\ engine.call = "record_transfer" /\ engine.pc = "commit"
    /\ \E f \in Faults :
         LET e == [engine EXCEPT !.commits = @ + 1, !.commit_fault = f]
         IN  IF f # "none"
             THEN engine' = [e EXCEPT !.pc = "except"] /\ db' = db
             ELSE /\ engine' = EngineReturnFn(e, None)
                  /\ db' = [records |-> db.records + db.pending, pending |-> 0]
    /\ UNCHANGED <<apiVars, predictor>>

\* the except clause: db.rollback(), the fault is logged and not raised again
RecordExcept ==
    /\ engine.call = "record_transfer" /\ engine.pc = "except"
    /\ engine' = EngineReturnFn([engine EXCEPT !.rollbacks = @ + 1], None)
    /\ db' = [db EXCEPT !.pending = 0]
    /\ UNCHANGED <<apiVars, predictor>>

\* the caller takes the result
EngineReturn ==
    /\ engine.pc = "done"
    /\ engine' = InitEngine
    /\ UNCHANGED <<apiVars, predictor, db>>

\* the state of the components that are not used by a specification
InitLocal ==
    /\ predictor = InitPredictor
    /\ engine = InitEngine
    /\ db = [records |-> 0, pending |-> 0]

---------------------------------------------------------------------------
(* Specifications *)

Settings ==
    [SESSION_ID : BOOLEAN, CSRF_TOKEN : BOOLEAN,
     FPL_USERNAME : BOOLEAN, FPL_PASSWORD : BOOLEAN, TEAM_ID : BOOLEAN]

Init ==
    /\ settings \in Settings
    /\ session = 0
    /\ authenticated_session = 0
    /\ conns = <<>>
    /\ scope = "new"
    /\ network = Outcomes
    /\ running = 0
    /\ tasks = [t \in Tasks |-> InitTask]
    /\ InitLocal

Step(t) ==
    \/ \E fn \in Callable : \E m \in MethodsOf(fn) :
         \E id \in IdsOf(fn) : \E gw \in GameweeksOf(fn) : Call(t, fn, m, id, gw)
    \/ Return(t)
    \/ Enter(t)
    \/ ExitSession(t)
    \/ ExitAuth(t)
    \/ ExitDone(t)
    \/ MrwrEntry(t)
    \/ MrwrLoop(t)
    \/ GetResponse(t)
    \/ PostResponse(t)
    \/ AfterAuth(t)
    \/ RetryResponse(t)
    \/ ExceptTimeout(t)
    \/ ExceptException(t)
    \/ Wake(t)
    \/ AuthEntry(t)
    \/ AuthOpen(t)
    \/ ExecuteTransfersEntry(t)
    \/ ExecuteTransfersAfterAuth(t)
    \/ ExecuteTransfersPost(t)
    \/ ExecuteTransfersResponse(t)
    \/ ExecuteTransfersExcept(t)
    \/ GetBootstrapData(t)
    \/ GetPlayerData(t)
    \/ GetFixtures(t)
    \/ GetTeamData(t)
    \/ TeamPicksEntry(t)
    \/ TeamPicksResolve(t)
    \/ TeamPicksDone(t)
    \/ GetPlayerInfo(t)
    \/ GetFixtureDifficulty(t)
    \/ GetPlayerInjuryStatus(t)

\* one task drives the client
Next == \E t \in SeqTasks : Step(t)

Spec == Init /\ [][Next]_vars

\* The operations that use or replace the authenticated session, run by
\* several tasks that share the client.
SessionOps == {"_authenticate", "execute_transfers", "_make_request_with_retry"}

WriteMethodsOf(fn) == IF fn = "_make_request_with_retry" THEN {"POST"} ELSE {"none"}

StepConc(t) ==
    \/ \E fn \in SessionOps : \E m \in WriteMethodsOf(fn) : Call(t, fn, m, 0, 0)
    \/ Return(t)
    \/ MrwrEntry(t)
    \/ MrwrLoop(t)
    \/ PostResponse(t)
    \/ AfterAuth(t)
    \/ RetryResponse(t)
    \/ ExceptTimeout(t)
    \/ ExceptException(t)
    \/ Wake(t)
    \/ AuthEntry(t)
    \/ AuthOpen(t)
    \/ ExecuteTransfersEntry(t)
    \/ ExecuteTransfersAfterAuth(t)
    \/ ExecuteTransfersPost(t)
    \/ ExecuteTransfersResponse(t)
    \/ ExecuteTransfersExcept(t)

NextConc == \E t \in Tasks : StepConc(t)

\* the client inside its `async with` scope, with a team and with each pair of
\* credentials set or unset as a whole
InitConc ==
    /\ settings \in {s \in Settings : /\ s.TEAM_ID
                                      /\ s.SESSION_ID = s.CSRF_TOKEN
                                      /\ s.FPL_USERNAME = s.FPL_PASSWORD}
    /\ session = 1
    /\ authenticated_session = 0
    /\ conns = <<NewConn(BaseHeaders)>>
    /\ scope = "entered"
    /\ network = Outcomes
    /\ running = 0
    /\ tasks = [t \in Tasks |-> InitTask]
    /\ InitLocal

SpecConc == InitConc /\ [][NextConc]_vars

\* Tasks that share the client inside its `async with` scope authenticate
\* concurrently; the scope ends when all of them have returned.
StepScope(t) ==
    \/ scope = "entered" /\ Call(t, "_authenticate", "none", 0, 0)
    \/ (\A u \in Tasks : Idle(tasks[u])) /\ Call(t, "__aexit__", "none", 0, 0)
    \/ Return(t)
    \/ AuthEntry(t)
    \/ AuthOpen(t)
    \/ ExitSession(t)
    \/ ExitAuth(t)
    \/ ExitDone(t)

NextScope == \E t \in Tasks : StepScope(t)

SpecScope == InitConc /\ [][NextScope]_vars

\* Many tasks share an authenticated client and fetch (base session) or post
\* transfers (authenticated session) at the same time; the server answers
\* every request with 200.
PoolTasks == 1..6

StepPool(t) ==
    \/ Call(t, "_make_request_with_retry", "GET", 0, 0)
    \/ Call(t, "execute_transfers", "none", 0, 0)
    \/ Return(t)
    \/ Acquire(t)
    \/ MrwrEntry(t)
    \/ MrwrLoop(t)
    \/ GetResponse(t)
    \/ ExecuteTransfersEntry(t)
    \/ ExecuteTransfersPost(t)
    \/ ExecuteTransfersResponse(t)

NextPool == \E t \in PoolTasks : StepPool(t)

InitPool ==
    /\ settings = [SESSION_ID |-> TRUE, CSRF_TOKEN |-> TRUE,
                   FPL_USERNAME |-> FALSE, FPL_PASSWORD |-> FALSE, TEAM_ID |-> TRUE]
    /\ session = 1
    /\ authenticated_session = 2
    /\ conns = <<NewConn(BaseHeaders), NewConn(SessionAuthHeaders)>>
    /\ scope = "entered"
    /\ network = {[status |-> HTTP_OK, exc |-> "none"]}
    /\ running = 0
    /\ tasks = [t \in PoolTasks |-> InitTask]
    /\ InitLocal

SpecPool == InitPool /\ [][NextPool]_vars

\* the predictor and the engine before their first call, beside a client that
\* is not used: no settings, no scope, no task running
InitOffline ==
    /\ settings = [SESSION_ID |-> FALSE, CSRF_TOKEN |-> FALSE,
                   FPL_USERNAME |-> FALSE, FPL_PASSWORD |-> FALSE, TEAM_ID |-> FALSE]
    /\ session = 0
    /\ authenticated_session = 0
    /\ conns = <<>>
    /\ scope = "new"
    /\ network = Outcomes
    /\ running = 0
    /\ tasks = [t \in Tasks |-> InitTask]
    /\ InitLocal

\* The predictor on its own: it is trained, and asked for predictions, in any
\* order.
NextPredictor ==
    \/ TrainModel
    \/ TrainQuery
    \/ TrainClean
    \/ TrainFit
    \/ TrainEvaluate
    \/ TrainExcept
    \/ PredictCall
    \/ PredictorReturn

SpecPredictor == InitOffline /\ [][NextPredictor]_vars

\* The engine on its own, with its record store.
NextEngine ==
    \/ IsPlayerAvailableCall
    \/ CalculatePlayerValueCall
    \/ RecordTransfer
    \/ RecordAdd
    \/ RecordCommit
    \/ RecordExcept
    \/ EngineReturn

SpecEngine == InitOffline /\ [][NextEngine]_vars

---------------------------------------------------------------------------
(* Properties *)

\* the operations whose requests go through _make_request_with_retry
RetryOps == (PublicOps \ {"execute_transfers"}) \cup {"_make_request_with_retry"}

\* a direct call of _make_request_with_retry that has returned
Returned(r) == Op(r) = "_make_request_with_retry" /\ Pc(r) = "done"

\* the attempts (passes of the for loop) a logical request has started
Started(r) == IF r.attempt < max_retries THEN r.attempt + 1 ELSE max_retries

\* C1 as stated: a logical request through _make_request_with_retry sends at
\* most 3 HTTP requests before it returns.
C1_AtMostThreeRequests ==
    \A t \in Tasks :
        Op(tasks[t]) \in RetryOps => tasks[t].sent <= max_retries

\* C1 amended: a logical request makes at most 3 attempts; a GET sends one
\* request per attempt (at most 3); a POST sends one request per attempt and
\* one more after each re-authentication a 401 triggered (at most 6).
C1_AttemptsBounded ==
    \A t \in Tasks :
        LET r == tasks[t]
        IN  Op(r) \in RetryOps =>
              /\ r.attempt <= max_retries
              /\ Upper(r.method) = "GET" => r.sent <= max_retries
              /\ r.sent <= Started(r) + r.auths
              /\ r.auths <= Started(r)
              /\ r.sent <= 2 * max_retries

\* a POST answered 500, 500, 401, re-authenticated and repeated: 4 requests
C1_Witness ==
    \E t \in Tasks :
        /\ Returned(tasks[t])
        /\ tasks[t].method = "POST"
        /\ tasks[t].sent = max_retries + 1
        /\ tasks[t].auths = 1

C3_ReauthThenOneRetry ==
    [][\A t \in Tasks :
         LET r == tasks[t]
             r2 == tasks'[t]
         IN  (Fn(r) = "_make_request_with_retry" /\ Upper(r.method) = "POST" /\ r2 # r) =>
               /\ (Pc(r) = "await_post" /\ r2.last.status = HTTP_UNAUTHORIZED) =>
                     /\ Fn(r2) = "_authenticate"
                     /\ Pc(r2) = "entry"
                     /\ r2.sent = r.sent
               /\ (Pc(r) = "after_auth" /\ r.ret = Bool(TRUE)) =>
                     /\ Pc(r2) = "await_retry"
                     /\ r2.req = authenticated_session
                     /\ r2.req = Len(conns)
                     /\ IsOpen(r2.req)
                     /\ r2.sent = r.sent + 1
               /\ (Pc(r) = "after_auth" /\ r.ret # Bool(TRUE)) =>
                     /\ Pc(r2) = "done"
                     /\ r2.ret = None
                     /\ r2.sent = r.sent
               /\ (Pc(r) = "await_retry" /\ r2.last.status = HTTP_OK) =>
                     /\ Pc(r2) = "done"
                     /\ r2.ret.tag = "json"
                     /\ r2.ret.req = r.sent
                     /\ r2.sent = r.sent
               /\ (Pc(r) = "await_retry" /\ r2.last.status \in Statuses \ {HTTP_OK}) =>
                     /\ Pc(r2) = "done"
                     /\ r2.ret = None
                     /\ r2.sent = r.sent
      ]_vars

\* a POST answered 401, re-authenticated, repeated and answered 200
C3_Witness ==
    \E t \in Tasks :
        /\ Returned(tasks[t])
        /\ tasks[t].method = "POST"
        /\ tasks[t].auths = 1
        /\ tasks[t].sent = 2
        /\ tasks[t].ret = Json(2, PlainDoc)

\* C4: within one logical POST request _authenticate is called at most once.
C4_OneReauthentication ==
    \A t \in Tasks :
        Op(tasks[t]) = "_make_request_with_retry" => tasks[t].auths <= 1

\* C5 as stated: execute_transfers retries the transfer POST like any other
\* request: 3 requests before a transient failure is reported, and a repeat
\* of the POST after a 401.
C5_TransferRetried ==
    \A t \in Tasks :
        LET r == tasks[t]
        IN  (/\ Op(r) = "execute_transfers"
             /\ Pc(r) = "done"
             /\ r.sent > 0
             /\ r.last.status \notin {HTTP_OK, HTTP_RATE_LIMITED}) =>
                IF r.last.status = HTTP_UNAUTHORIZED
                THEN r.sent = 2
                ELSE r.sent = max_retries

\* C5 amended: execute_transfers does not go through
\* _make_request_with_retry; it sends the transfer POST at most once, and any
\* status but 200, a timeout or a fault makes it return False with no retry,
\* no backoff wait and no re-authentication after the POST.
C5_TransferSentOnce ==
    \A t \in Tasks :
        LET r == tasks[t]
        IN  Op(r) = "execute_transfers" =>
              /\ r.sent <= 1
              /\ r.attempt = 0
              /\ r.wait = 0
              /\ r.auths <= 1
              /\ r.sent = 1 => Fn(r) = "execute_transfers"
              /\ \A i \in 1..Len(r.stack) : r.stack[i].fn # "_make_request_with_retry"
              /\ (Pc(r) = "done" /\ r.sent = 1 /\ r.last.status # HTTP_OK) => r.ret = Bool(FALSE)

\* the transfer POST answered 401: one request, and False
C5_Witness ==
    \E t \in Tasks :
        /\ Op(tasks[t]) = "execute_transfers"
        /\ Pc(tasks[t]) = "done"
        /\ tasks[t].sent = 1
        /\ tasks[t].last.status = HTTP_UNAUTHORIZED
        /\ tasks[t].ret = Bool(FALSE)

\* what a public operation returns when it fails
FailureValue(op) ==
    CASE op = "execute_transfers" -> Bool(FALSE)
      [] op = "get_fixture_difficulty" -> IntVal(DEFAULT_DIFFICULTY)
      [] op = "get_player_injury_status" -> DefaultInjury
      [] OTHER -> None

\* C6: no exception leaves a public operation: whatever the timeouts, faults
\* and statuses, it returns, and a call whose last request was not answered
\* 200 (or that sent none) returns the operation's failure value.
C6_NoExceptionEscapes ==
    \A t \in Tasks :
        LET r == tasks[t]
        IN  Op(r) \in PublicOps =>
              /\ ~r.escaped
              /\ Pc(r) = "done" =>
                    /\ r.exc = "none"
                    /\ (r.sent = 0 \/ r.last.status # HTTP_OK) => r.ret = FailureValue(Op(r))

\* a transfer POST that timed out, and a fetch whose three attempts faulted
C6_Witness ==
    \E t \in Tasks :
        /\ Op(tasks[t]) = "execute_transfers"
        /\ Pc(tasks[t]) = "done"
        /\ tasks[t].last.exc = "TimeoutError"
        /\ tasks[t].ret = Bool(FALSE)

\* the connections _authenticate opened
AuthConns == {c \in 1..Len(conns) : c # session}

\* C7: every authenticated connection but the current one is closed (so the
\* old one was closed before the new one was opened).
C7_OldClosedBeforeNew ==
    \A c \in AuthConns : c # authenticated_session => conns[c].closed

\* after a re-authentication: an old connection, closed, and the new one, open
C7_Witness ==
    /\ IsOpen(authenticated_session)
    /\ \E c \in AuthConns : c < authenticated_session /\ conns[c].closed

\* C8: at most one authenticated connection of the client is open.
C8_AtMostOneAuthenticated ==
    Cardinality({c \in AuthConns : ~conns[c].closed}) <= 1

\* the places where a task reads self.authenticated_session to use it
ReadsAuthenticated(t) ==
    /\ running = t
    /\ \/ Fn(tasks[t]) = "execute_transfers" /\ Pc(tasks[t]) \in {"entry", "post"}
       \/ /\ Fn(tasks[t]) = "_make_request_with_retry"
          /\ Pc(tasks[t]) = "loop"
          /\ Upper(tasks[t].method) = "POST"
          /\ ~LoopExhausted(tasks[t])

\* C9: a task that reads the authenticated connection as present finds it
\* open (between the close and the open of a replacement the client looks
\* unauthenticated).
C9_PresentMeansOpen ==
    \A t \in Tasks :
        (ReadsAuthenticated(t) /\ authenticated_session # 0) => IsOpen(authenticated_session)

BothConfigured ==
    /\ settings.SESSION_ID /\ settings.CSRF_TOKEN
    /\ settings.FPL_USERNAME /\ settings.FPL_PASSWORD

\* C10: with both kinds of credentials set, a successful _authenticate leaves
\* the client session-authenticated: the connection carries the Cookie,
\* X-CSRFToken and Referer headers.
C10_SessionAuthPreferred ==
    BothConfigured =>
        /\ \A c \in AuthConns : conns[c].headers = SessionAuthHeaders
        /\ \A t \in Tasks :
             (Op(tasks[t]) = "_authenticate" /\ Pc(tasks[t]) = "done") =>
                /\ tasks[t].ret = Bool(TRUE)
                /\ authenticated_session # 0
                /\ {"Cookie", "X-CSRFToken", "Referer"}
                       \subseteq conns[authenticated_session].headers

\* _authenticate has returned True with both kinds of credentials set
C10_Witness ==
    /\ BothConfigured
    /\ \E t \in Tasks :
         /\ Op(tasks[t]) = "_authenticate"
         /\ Pc(tasks[t]) = "done"
         /\ tasks[t].ret = Bool(TRUE)

\* neither pair of credentials is complete
NoCredentials ==
    /\ ~(settings.SESSION_ID /\ settings.CSRF_TOKEN)
    /\ ~(settings.FPL_USERNAME /\ settings.FPL_PASSWORD)

\* C11: with no complete pair of credentials the client never has an
\* authenticated connection, _authenticate returns False, and
\* execute_transfers returns False having sent no request.
C11_NoCredentialsNoSession ==
    NoCredentials =>
        /\ authenticated_session = 0
        /\ AuthConns = {}
        /\ \A t \in Tasks :
             LET r == tasks[t]
             IN  /\ (Op(r) = "_authenticate" /\ Pc(r) = "done") => r.ret = Bool(FALSE)
                 /\ Op(r) = "execute_transfers" =>
                       /\ r.sent = 0
                       /\ Pc(r) = "done" => r.ret = Bool(FALSE)

\* only half of each pair is set, a team is configured, and execute_transfers
\* has tried to authenticate and returned False
C11_Witness ==
    /\ NoCredentials
    /\ settings.TEAM_ID /\ settings.SESSION_ID /\ settings.FPL_PASSWORD
    /\ \E t \in Tasks :
         /\ Op(tasks[t]) = "execute_transfers"
         /\ Pc(tasks[t]) = "done"
         /\ tasks[t].auths = 1
         /\ tasks[t].ret = Bool(FALSE)

\* C12: when __aexit__ has returned, every connection the client opened is
\* closed.
C12_AllClosedAfterExit ==
    \A t \in Tasks :
        (Op(tasks[t]) = "__aexit__" /\ Pc(tasks[t]) = "done") =>
            \A c \in 1..Len(conns) : conns[c].closed

\* the requests of the client that hold a connection, on any of its sessions
AllInFlight == {u \in DOMAIN tasks : tasks[u].req # 0 /\ ~tasks[u].queued}

\* C13: counting the base and the authenticated connection together, at most
\* 10 requests are in flight, and at most 5 to the API host (every request of
\* the client goes to that host).
C13_SharedCeiling ==
    /\ Cardinality(AllInFlight) <= POOL_LIMIT
    /\ Cardinality(AllInFlight) <= POOL_LIMIT_PER_HOST

\* C13 amended: every session has a connector of its own, and the requests in
\* flight on one session never exceed its limits (5 to the API host, 10 in
\* all); the limits are not shared between the base and the authenticated
\* session.
C13_PerSessionCeiling ==
    \A c \in 1..Len(conns) :
        InFlight(c) <= conns[c].limit_per_host /\ InFlight(c) <= conns[c].limit

\* five requests hold the connections of one session and a sixth waits for one
C13_Witness ==
    \E c \in 1..Len(conns) :
        /\ InFlight(c) = POOL_LIMIT_PER_HOST
        /\ \E u \in DOMAIN tasks : tasks[u].req = c /\ tasks[u].queued

\* C14: in a logical request the delay is 1 at first and doubles with every
\* retry (2 ^ attempt); a wait is the current delay, so 1 before the 2nd and
\* 2 before the 3rd attempt when no response was a 429, and twice the current
\* delay after a 429.
C14_BackoffDoubles ==
    \A t \in Tasks :
        LET r == tasks[t]
        IN  (Fn(r) = "_make_request_with_retry" /\ Pc(r) # "entry") =>
              /\ r.retry_delay = initial_retry_delay * 2 ^ r.attempt
              /\ Pc(r) = "sleep" =>
                    r.wait = IF r.last.status = HTTP_RATE_LIMITED
                             THEN 2 * r.retry_delay ELSE r.retry_delay
              /\ (Pc(r) = "sleep" /\ r.limited = 0) =>
                    \/ r.attempt = 0 /\ r.wait = 1
                    \/ r.attempt = 1 /\ r.wait = 2
              /\ Pc(r) # "sleep" => r.wait = 0

\* a first failure (wait 1, delay doubled to 2), then a 429: the wait is 4
C14_Witness ==
    \E t \in Tasks :
        LET r == tasks[t]
        IN  /\ Fn(r) = "_make_request_with_retry"
            /\ Pc(r) = "sleep"
            /\ r.attempt = 1
            /\ r.limited = 1
            /\ r.last.status = HTTP_RATE_LIMITED
            /\ r.wait = 4

\* the operations that return what _make_request_with_retry gave them
FetchOps == {"get_bootstrap_data", "get_player_data", "get_fixtures", "get_team_data"}

\* the frame of r has returned to its caller (or to the task) in r2
ReturnedFrom(r, r2) ==
    IF Len(r.stack) = 1 THEN Pc(r2) = "done" ELSE Len(r2.stack) = Len(r.stack) - 1

\* v is the parsed body of the response to the n-th request, a document of url
BodyOf(v, n, url) == v.tag = "json" /\ v.req = n /\ v.doc \in Docs(url)

\* C15: a GET returns on the first 200, with the body of that response; every
\* other answer leads to a retry or to None; so the result is None exactly
\* when no attempt was answered 200, and the fetch operations pass the result
\* on unchanged.
C15_GetResult ==
    /\ [](\A t \in Tasks :
            LET r == tasks[t]
            IN  (/\ Pc(r) = "done"
                 /\ \/ Op(r) \in FetchOps
                    \/ Op(r) = "_make_request_with_retry" /\ Upper(r.method) = "GET") =>
                   /\ r.ret = None <=> (r.sent = 0 \/ r.last.status # HTTP_OK)
                   /\ r.ret # None => BodyOf(r.ret, r.sent, r.url))
    /\ [][\A t \in Tasks :
            LET r == tasks[t]
                r2 == tasks'[t]
            IN  /\ (Fn(r) = "_make_request_with_retry" /\ Pc(r) = "await_get" /\ r2 # r) =>
                      IF r2.last.status = HTTP_OK
                      THEN /\ ReturnedFrom(r, r2)
                           /\ BodyOf(r2.ret, r.sent, r.url)
                      ELSE \/ ~ReturnedFrom(r, r2) /\ Fn(r2) = "_make_request_with_retry"
                           \/ ReturnedFrom(r, r2) /\ r2.ret = None
                /\ (Fn(r) \in FetchOps /\ Pc(r) = "after_request" /\ r2 # r) =>
                      /\ ReturnedFrom(r, r2)
                      /\ r2.ret = r.ret
       ]_vars

\* get_fixtures answered 500, 500, 200: the body of the third response
C15_Witness ==
    \E t \in Tasks :
        LET r == tasks[t]
        IN  /\ Op(r) = "get_fixtures"
            /\ Pc(r) = "done"
            /\ r.sent = max_retries
            /\ r.limited = 0
            /\ r.last.status = HTTP_OK
            /\ r.ret.tag = "json"
            /\ r.ret.req = max_retries

\* C16: a request with a verb that is neither GET nor POST sends nothing,
\* waits for nothing, makes no second attempt and returns None.
C16_UnsupportedVerb ==
    \A t \in Tasks :
        LET r == tasks[t]
        IN  (Op(r) = "_make_request_with_retry" /\ r.method = "PUT") =>
              /\ Pc(r) \in {"entry", "loop", "done"}
              /\ r.sent = 0
              /\ r.wait = 0
              /\ r.attempt = 0
              /\ r.auths = 0
              /\ Pc(r) = "done" => r.ret = None

\* a PUT on an open client has returned None
C16_Witness ==
    \E t \in Tasks :
        LET r == tasks[t]
        IN  /\ Op(r) = "_make_request_with_retry"
            /\ r.method = "PUT"
            /\ IsOpen(session)
            /\ Pc(r) = "done"
            /\ r.retry_delay = initial_retry_delay
            /\ r.ret = None

\* C17: execute_transfers returns True or False, and True exactly when the
\* transfer POST went out on an authenticated session and was answered 200.
C17_TransferBoolean ==
    \A t \in Tasks :
        LET r == tasks[t]
        IN  Op(r) = "execute_transfers" =>
              /\ Pc(r) = "await_transfer" => r.req \in AuthConns
              /\ Pc(r) = "done" =>
                    /\ r.ret \in {[tag |-> "bool", b |-> TRUE], [tag |-> "bool", b |-> FALSE]}
                    /\ r.ret.b <=> (r.sent = 1 /\ r.last.status = HTTP_OK)

\* the transfer POST was answered 200 and execute_transfers returned True
C17_Witness ==
    \E t \in Tasks :
        LET r == tasks[t]
        IN  /\ Op(r) = "execute_transfers"
            /\ Pc(r) = "done"
            /\ r.sent = 1
            /\ r.last.status = HTTP_OK
            /\ r.ret = [tag |-> "bool", b |-> TRUE]

\* C18: get_fixture_difficulty returns an integer: the home-side difficulty of
\* the fixture of the gameweek in which the team is at home, the away-side
\* difficulty when it is away, and 3 when no fixture of the gameweek involves
\* the team or when there is no fixture list.
C18_FixtureDifficulty ==
    /\ [](\A t \in Tasks :
            LET r == tasks[t]
            IN  (Op(r) = "get_fixture_difficulty" /\ Pc(r) = "done") =>
                  /\ r.ret.tag = "int"
                  /\ (r.sent = 0 \/ r.last.status # HTTP_OK) => r.ret.n = 3)
    /\ [][\A t \in Tasks :
            LET r == tasks[t]
                r2 == tasks'[t]
                listed == r.ret.tag = "json" /\ r.ret.doc.shape = "array"
                fx == IF listed THEN r.ret.doc.fixtures ELSE <<>>
                home == {i \in 1..Len(fx) : fx[i].event = r.gameweek /\ fx[i].team_h = r.ident}
                away == {i \in 1..Len(fx) : fx[i].event = r.gameweek /\ fx[i].team_a = r.ident}
            IN  (Fn(r) = "get_fixture_difficulty" /\ r2 # r) =>
                  /\ (Pc(r) = "after_fixtures" /\ (listed \/ r.ret.tag = "None")) =>
                        /\ Pc(r2) = "done"
                        /\ r2.ret.tag = "int"
                        /\ (home # {} /\ away = {}) =>
                              \E i \in home : r2.ret.n = fx[i].team_h_difficulty
                        /\ (away # {} /\ home = {}) =>
                              \E i \in away : r2.ret.n = fx[i].team_a_difficulty
                        /\ (home = {} /\ away = {}) => r2.ret.n = 3
                  /\ Pc(r) = "except" => (Pc(r2) = "done" /\ r2.ret = [tag |-> "int", n |-> 3])
       ]_vars

\* team 2 plays away in gameweek 1 of the list of the test: difficulty 4
C18_Witness ==
    \E t \in Tasks :
        LET r == tasks[t]
        IN  /\ Op(r) = "get_fixture_difficulty"
            /\ Pc(r) = "done"
            /\ r.ident = 2
            /\ r.last.status = HTTP_OK
            /\ r.ret = [tag |-> "int", n |-> 4]

\* C19: get_team_picks without a gameweek asks for the picks of the event
\* flagged is_current when there is one, in whatever order the events come,
\* for those of an event flagged is_next only when none is flagged
\* is_current, and returns None without a picks request when the bootstrap
\* data is missing or flags no event.
C19_CurrentGameweekFirst ==
    [][\A t \in Tasks :
         LET r == tasks[t]
             r2 == tasks'[t]
             loaded == r.ret.tag = "json" /\ r.ret.doc.truthy /\ r.ret.doc.shape = "object"
             events == IF loaded THEN r.ret.doc.events ELSE <<>>
             current == {i \in 1..Len(events) : events[i].is_current}
             next == {i \in 1..Len(events) : events[i].is_next}
             asked == /\ Fn(r2) = "_make_request_with_retry"
                      /\ Pc(r2) = "entry"
                      /\ r2.url = "picks"
         IN  (/\ Fn(r) = "get_team_picks"
              /\ Pc(r) = "after_bootstrap"
              /\ r2 # r
              /\ (loaded \/ r.ret.tag = "None")) =>
                /\ current # {} =>
                      asked /\ \E i \in current : r2.gameweek = events[i].id
                /\ (current = {} /\ next # {}) =>
                      asked /\ \E i \in next : r2.gameweek = events[i].id
                /\ (current = {} /\ next = {}) =>
                      Pc(r2) = "done" /\ r2.ret = None /\ r2.sent = r.sent
    ]_vars

\* C20: get_player_injury_status returns the status, the news and the two
\* chances of the player of the bootstrap data, with 'a' for a status that is
\* absent and 100 for a chance that is absent or null; it returns the
\* all-default record when the player is not in the bootstrap data or the
\* bootstrap data could not be fetched.
C20_InjuryStatus ==
    /\ [](\A t \in Tasks :
            LET r == tasks[t]
            IN  (Op(r) = "get_player_injury_status" /\ Pc(r) = "done") =>
                  /\ r.ret.tag = "injury"
                  /\ (r.sent = 0 \/ r.last.status # HTTP_OK) =>
                        r.ret = [tag |-> "injury", status |-> "a", news |-> "",
                                 chance_of_playing_next_round |-> 100,
                                 chance_of_playing_this_round |-> 100])
    /\ [][\A t \in Tasks :
            LET r == tasks[t]
                r2 == tasks'[t]
                loaded == r.ret.tag = "json" /\ r.ret.doc.truthy /\ r.ret.doc.shape = "object"
                players == IF loaded THEN r.ret.doc.elements ELSE <<>>
                found == {i \in 1..Len(players) : players[i].id = r.ident}
                p == r.ret.o
                chance(c) == IF c.kind \in {"absent", "null"} THEN 100 ELSE c.n
            IN  /\ (/\ Fn(r) = "get_player_info"
                     /\ Pc(r) = "after_bootstrap"
                     /\ r2 # r
                     /\ (loaded \/ r.ret.tag = "None")) =>
                       IF found = {} THEN r2.ret = None
                       ELSE \E i \in found : r2.ret = [tag |-> "object", o |-> players[i]]
                /\ (Fn(r) = "get_player_injury_status" /\ Pc(r) = "after_info" /\ r2 # r) =>
                       /\ Pc(r2) = "done"
                       /\ r.ret.tag = "None" =>
                             r2.ret = [tag |-> "injury", status |-> "a", news |-> "",
                                       chance_of_playing_next_round |-> 100,
                                       chance_of_playing_this_round |-> 100]
                       /\ r.ret.tag = "object" =>
                             r2.ret = [tag |-> "injury",
                                       status |-> IF p.status = "absent" THEN "a" ELSE p.status,
                                       news |-> IF p.news = "absent" THEN "" ELSE p.news,
                                       chance_of_playing_next_round |->
                                           chance(p.chance_of_playing_next_round),
                                       chance_of_playing_this_round |->
                                           chance(p.chance_of_playing_this_round)]
       ]_vars

\* an injured player with chance 25 for the next round and null for this one
C20_Witness ==
    \E t \in Tasks :
        LET r == tasks[t]
        IN  /\ Op(r) = "get_player_injury_status"
            /\ Pc(r) = "done"
            /\ r.ident = 1
            /\ r.ret = [tag |-> "injury", status |-> "i", news |-> "Knee injury",
                         chance_of_playing_next_round |-> 25,
                         chance_of_playing_this_round |-> 100]

\* C24: one call of execute_transfers sends the transfer POST at most once:
\* once the POST is out, no step of the call sends another request.
C24_TransferPostAtMostOnce ==
    /\ [](\A t \in Tasks :
            Op(tasks[t]) = "execute_transfers" => tasks[t].sent \in {0, 1})
    /\ [][\A t \in Tasks :
            (/\ Op(tasks[t]) = "execute_transfers"
             /\ Op(tasks'[t]) = "execute_transfers"
             /\ tasks[t].sent = 1) =>
                /\ tasks'[t].sent = 1
                /\ tasks'[t].req = 0
       ]_vars

\* the transfer POST was answered 429: one request, and the call is over
C24_Witness ==
    \E t \in Tasks :
        /\ Op(tasks[t]) = "execute_transfers"
        /\ Pc(tasks[t]) = "done"
        /\ tasks[t].sent = 1
        /\ tasks[t].last.status = HTTP_RATE_LIMITED

\* the last value `attempt` takes in range(max_retries)
LastAttempt(r) == r.attempt = max_retries - 1

\* C25 as stated: after the failure of the last attempt the call returns
\* None with no further wait, whatever the failure was.
C25_NoWaitAfterLastAttempt ==
    \A t \in Tasks :
        LET r == tasks[t]
        IN  (Fn(r) = "_make_request_with_retry" /\ LastAttempt(r)) => Pc(r) # "sleep"

\* C25 amended: after a status other than 200 and 429, a timeout or a fault
\* in the last attempt the call returns None with no further wait; after a
\* 429 in the last attempt it still waits twice the current delay, and then
\* returns None without another request.
C25_WaitAfterLastOnlyWhenLimited ==
    /\ [](\A t \in Tasks :
            LET r == tasks[t]
            IN  (Fn(r) = "_make_request_with_retry" /\ LastAttempt(r) /\ Pc(r) = "sleep") =>
                  /\ r.last.status = HTTP_RATE_LIMITED
                  /\ r.wait = 2 * r.retry_delay)
    /\ [][\A t \in Tasks :
            LET r == tasks[t]
                r2 == tasks'[t]
                answered == Pc(r) \in {"await_get", "await_post"} /\ r2.last.exc = "none"
                reauth == Pc(r) = "await_post" /\ r2.last.status = HTTP_UNAUTHORIZED
            IN  (Fn(r) = "_make_request_with_retry" /\ r2 # r) =>
                  /\ (/\ LastAttempt(r)
                      /\ answered
                      /\ r2.last.status \notin {HTTP_OK, HTTP_RATE_LIMITED}
                      /\ ~reauth) =>
                        ReturnedFrom(r, r2) /\ r2.ret = None /\ r2.wait = 0
                  /\ (LastAttempt(r) /\ Pc(r) \in {"except_timeout", "except_exception"}) =>
                        ReturnedFrom(r, r2) /\ r2.ret = None /\ r2.wait = 0
                  /\ (LastAttempt(r) /\ answered /\ r2.last.status = HTTP_RATE_LIMITED) =>
                        Pc(r2) = "sleep" /\ r2.wait = 2 * r.retry_delay
                  /\ (LastAttempt(r) /\ Pc(r) = "sleep") =>
                        Pc(r2) = "loop" /\ r2.attempt = max_retries /\ r2.sent = r.sent
                  /\ (Pc(r) = "loop" /\ r.attempt = max_retries) =>
                        ReturnedFrom(r, r2) /\ r2.ret = None /\ r2.sent = r.sent
       ]_vars

\* the third attempt was answered 429 and the call waits 8 before it returns
C25_Witness ==
    \E t \in Tasks :
        LET r == tasks[t]
        IN  /\ Fn(r) = "_make_request_with_retry"
            /\ LastAttempt(r)
            /\ Pc(r) = "sleep"
            /\ r.sent = max_retries
            /\ r.last.status = HTTP_RATE_LIMITED
            /\ r.wait = 8

TeamOps == {"get_team_data", "get_team_picks", "execute_transfers"}

\* C27: without TEAM_ID, get_team_data, get_team_picks and execute_transfers
\* return None, None and False in their first step: no request, no bootstrap
\* fetch, no authentication, and the client's sessions are as they were.
C27_NoTeamIdNoEffect ==
    /\ [](\A t \in Tasks :
            LET r == tasks[t]
            IN  (~settings.TEAM_ID /\ Op(r) \in TeamOps) =>
                  /\ Len(r.stack) = 1
                  /\ Pc(r) \in {"entry", "done"}
                  /\ r.sent = 0
                  /\ r.auths = 0
                  /\ r.req = 0)
    /\ [][\A t \in Tasks :
            LET r == tasks[t]
                r2 == tasks'[t]
            IN  (~settings.TEAM_ID /\ Op(r) \in TeamOps /\ Pc(r) = "entry" /\ r2 # r) =>
                  /\ Pc(r2) = "done"
                  /\ r2.ret = IF Op(r) = "execute_transfers"
                              THEN [tag |-> "bool", b |-> FALSE]
                              ELSE [tag |-> "None"]
                  /\ ~r2.escaped
                  /\ UNCHANGED clientVars
       ]_vars

\* execute_transfers has returned False without a team id, on a client that
\* holds an open authenticated session, and nothing was sent
C27_Witness ==
    \E t \in Tasks :
        /\ ~settings.TEAM_ID
        /\ Op(tasks[t]) = "execute_transfers"
        /\ Pc(tasks[t]) = "done"
        /\ tasks[t].ret = [tag |-> "bool", b |-> FALSE]
        /\ tasks[t].sent = 0
        /\ IsOpen(authenticated_session)

\* C28: the result of train_model agrees with is_trained: a call that returns
\* False leaves is_trained as it was before the call, and is_trained turns
\* True only in a call that returns True.
C28_ResultAgreesWithTrainedState ==
    (predictor.call = "train_model" /\ predictor.pc = "done") =>
        /\ predictor.ret = [tag |-> "bool", b |-> FALSE] =>
              predictor.is_trained = predictor.was_trained
        /\ (predictor.is_trained /\ ~predictor.was_trained) =>
              predictor.ret = [tag |-> "bool", b |-> TRUE]

\* C29: predict_performance never raises and returns a score that is not
\* negative, whatever the fields of player_stats are (present, absent, null,
\* nan) and whatever the model does; untrained, the score is
\* max(0, form * 1.2), with 0 for a form that is absent.
C29_PredictionNonNegative ==
    (predictor.call = "predict_performance" /\ predictor.pc = "done") =>
        LET form == predictor.args.player_stats.form
            score == predictor.ret
        IN  /\ score.tag = "float"
            /\ score.n >= 0
            /\ (~predictor.was_trained /\ form.tag = "float") =>
                  score.n = IF form.n > 0 THEN (form.n * 12) \div 10 ELSE 0
            /\ (~predictor.was_trained /\ form.tag = "absent") => score.n = 0

\* C21: is_player_available is true exactly when the status is not injured,
\* suspended or unavailable (a missing status counts as available) and the
\* chance of playing the next round is absent, null or at least 75.
C21_AvailableIff ==
    (engine.call = "is_player_available" /\ engine.pc = "done") =>
        LET status == engine.player.status
            chance == engine.player.chance_of_playing_next_round
            fit == status.tag = "absent" \/ status.s \in {"a", "d"}
            likely == chance.tag \in {"absent", "None"} \/ chance.n >= 75
        IN  /\ engine.ret.tag = "bool"
            /\ engine.ret.b <=> (fit /\ likely)
            /\ (status.tag = "str" /\ status.s = "i") => ~engine.ret.b
            /\ (chance.tag = "int" /\ chance.n < 75) => ~engine.ret.b

\* an available player whose chance of playing is 50 was found unavailable
C21_Witness ==
    /\ engine.call = "is_player_available"
    /\ engine.pc = "done"
    /\ engine.player.status = [tag |-> "str", s |-> "a"]
    /\ engine.player.chance_of_playing_next_round = [tag |-> "int", n |-> 50]
    /\ engine.ret = [tag |-> "bool", b |-> FALSE]

\* C22: calculate_player_value is expected_points / (price / 10) for a
\* positive price (2 for price 50 and 10 points) and 0 for price 0, and no
\* division fault leaves it.
C22_ValuePerPrice ==
    (engine.call = "calculate_player_value" /\ engine.pc = "done") =>
        LET price == engine.player.now_cost
            points == engine.expected_points.n
        IN  /\ ~engine.raised
            /\ engine.ret.tag = "float"
            /\ price = 0 => engine.ret.n = 0
            /\ price > 0 => engine.ret.n * price = points * 10
            /\ (price = 50 /\ points = 1000) => engine.ret.n = 200

\* the value of a player of price 0 with 10 expected points is 0
C22_Witness ==
    /\ engine.call = "calculate_player_value"
    /\ engine.pc = "done"
    /\ engine.player.now_cost = 0
    /\ engine.expected_points = [tag |-> "float", n |-> 1000]
    /\ engine.ret = [tag |-> "float", n |-> 0]

\* C23: record_transfer on a healthy store adds one record and commits once;
\* when add faults it rolls back once and does not commit; in both cases it
\* returns without raising, and nothing stays pending.
C23_RecordOrRollback ==
    engine.call = "record_transfer" =>
        /\ engine.adds <= 1
        /\ engine.commits <= 1
        /\ engine.rollbacks <= 1
        /\ engine.pc = "done" =>
              /\ ~engine.raised
              /\ engine.adds = 1
              /\ db.pending = 0
              /\ (engine.add_fault = "none" /\ engine.commit_fault = "none") =>
                    /\ engine.commits = 1
                    /\ engine.rollbacks = 0
                    /\ db.records = engine.records_before + 1
              /\ engine.add_fault # "none" =>
                    /\ engine.rollbacks = 1
                    /\ engine.commits = 0
                    /\ db.records = engine.records_before

\* add faulted: one rollback, no commit, and the call has returned
C23_Witness ==
    /\ engine.call = "record_transfer"
    /\ engine.pc = "done"
    /\ engine.add_fault = "Exception"
    /\ engine.rollbacks = 1
    /\ engine.commits = 0
    /\ ~engine.raised

====
